---- MODULE Spec2Model ----
(***************************************************************************)
(* A model of api.py, the local HTTP gateway that runs the fabric and yt   *)
(* command line tools for a desktop plugin.                                *)
(*                                                                         *)
(* A Python string is a sequence of symbols.  A request value is a         *)
(* sequence of single characters; a fixed fragment of an f-string template *)
(* (it holds no request data) is kept as one symbol.                       *)
(***************************************************************************)
EXTENDS Integers, Sequences, FiniteSets, TLC

\* ------------------------------------------------------------------ bounds

\* Requests in flight at the same time.
MaxReq == 2
\* Longest list the tool returns for --listmodels and --list.
MaxLen == 4

Slots == 1..MaxReq

\* ----------------------------------------------------------------- strings

Unbound == <<>>

\* Names tempfile can draw; more than the requests in flight, so that a file
\* left behind does not stop the next request.
TmpSymbols == <<"tmpA", "tmpB", "tmpC", "tmpD", "tmpE", "tmpF">>
TempNames == {<<TmpSymbols[i]>> : i \in 1..(MaxReq + 1)}

\* The characters shlex leaves alone: [a-zA-Z0-9@%+=:,./_-], as far as the
\* model's alphabet goes.  A template fragment or a temp name is safe.
SafeChars == {"p", "q", "m", "x", "d", "t", "o", "g", "c", "l", "a", "u", "e", "n", "s",
              "3", "4", "-", ":", ".", "/"}
    \cup {TmpSymbols[i] : i \in 1..Len(TmpSymbols)}

HasMeta(s) == \E i \in 1..Len(s) : s[i] \notin SafeChars

RECURSIVE ReplaceQuote(_)
\* s.replace("'", "'\"'\"'")
ReplaceQuote(s) ==
    IF s = <<>> THEN <<>>
    ELSE (IF Head(s) = "'" THEN <<"'", "\"", "'", "\"", "'">> ELSE <<Head(s)>>)
         \o ReplaceQuote(Tail(s))

\* shlex.quote
shlex_quote(s) ==
    IF s = <<>> THEN <<"'", "'">>
    ELSE IF ~HasMeta(s) THEN s
    ELSE <<"'">> \o ReplaceQuote(s) \o <<"'">>

sanitize_for_shell(input_string) == shlex_quote(input_string)

\* '{value}' in an f-string: the value between two literal single quotes.
InQuotes(value) == <<"'">> \o value \o <<"'">>

\* ---------------------------------------------------------------- platform

Platforms == {"darwin", "win32", "linux"}

FABRIC_PATH == <<"~/.local/bin/fabric">>
YT_PATH == <<"~/.local/bin/yt">>
POWERSHELL == <<"powershell.exe">>

\* ------------------------------------------------------------ request data

\* Request values: a plain one, and ones with a single quote or a space.
PlainPatterns == {<<"p">>}
PlainModels == {<<"m">>}
Patterns == PlainPatterns \cup {<<"p", "'", "q">>, <<"p", " ", "q">>}
Models == PlainModels \cup {<<"m", " ", "x">>, <<"m", "'", "x">>}
Data == {<<>>, <<"t">>}
Url == <<"u">>
\* What a tool may print.
Outputs == {<<>>, <<"t">>}
ExitCodes == {0, 1}

VARIABLES
    platform,   \* sys.platform
    proc,       \* the process: "import", "imported", "serving", "exited"
    req,        \* slot -> the request handled there, its handler's locals, and the
                \* run_command calls it made (spawned) and how each ended (returned)
    child,      \* slot -> "running" while the request's subprocess runs
    fs,         \* temp file path -> content, for the temp files on disk
    loop        \* the slot whose handler holds the event loop's thread, or 0

vars == <<platform, proc, req, child, fs, loop>>

\* Python values the tool wrapper returns: a list, a str, a dict of one key,
\* None.  One record shape for all four, so that TLC can compare any two.
PyList(elems) == [type |-> "list", str |-> <<>>, key |-> "", items |-> elems]
PyStr(s) == [type |-> "str", str |-> s, key |-> "", items |-> <<>>]
PyDict(k, v) == [type |-> "dict", str |-> v, key |-> k, items |-> <<>>]
PyNone == [type |-> "NoneType", str |-> <<>>, key |-> "", items |-> <<>>]

NoResponse == [status |-> 0]
NoChild == "none"
Running == "running"
IdleReq == [pc |-> "idle", endpoint |-> "none", pattern |-> <<>>, model |-> <<>>,
            data |-> <<>>, temp_file_path |-> Unbound, output |-> <<>>,
            result |-> PyNone, spawned |-> <<>>, returned |-> <<>>,
            response |-> NoResponse]

\* ------------------------------------------------------------ the responses

Ok(output) == [status |-> 200, output |-> output]

\* str(e) of a subprocess.CalledProcessError: it names the command and the status.
StrCalledProcessError(cmd, returncode) ==
    [kind |-> "CalledProcessError", cmd |-> cmd, returncode |-> returncode]

\* raise HTTPException(status_code=500, detail=...)
HTTPException500(detail) == [status |-> 500, detail |-> detail]

\* An exception no handler catches: the framework answers 500 Internal Server Error.
Unhandled(exc) == [status |-> 500, detail |-> [kind |-> "InternalServerError", exc |-> exc]]

\* ------------------------------------------------------------- run_command

\* run_command(argv) spawns the process and suspends the handler; text is what
\* the tool reads as its text input (the --text argument, or the piped file).
Spawn(argv, text) == [argv |-> argv, text |-> text]

\* How a child ends: exit status 0 and what it printed, or a failure.
Exits ==
    {[returncode |-> 0, stdout |-> out] : out \in Outputs}
        \cup {[returncode |-> code, stdout |-> <<>>] : code \in ExitCodes \ {0}}

\* The await of run_command returns: the child has ended, and the event loop's
\* thread is free to run the handler on.
Resumable(r) == child[r] = "running" /\ loop = 0

LastCmd(r) == req[r].spawned[Len(req[r].spawned)].argv

\* A variant of ExecutionFailure: the handler reports a message of its own
\* instead of str(e).
ExecutionFailure_own_message(r, exit) ==
    HTTPException500([kind |-> "CommandFailed"])

\* What run_command raises on a non-zero exit, as the handler reports it.
ExecutionFailure(r, exit) ==
    HTTPException500(StrCalledProcessError(LastCmd(r), exit.returncode))

\* ------------------------------------------------------------------ startup

\* A variant of ModuleImport: the else branch prints and does not exit.
ModuleImport_no_exit ==
    /\ proc = "import"
    /\ proc' = "imported"
    /\ UNCHANGED <<platform, req, child, fs, loop>>

\* The module-level platform dispatch: any other platform exits the process.
ModuleImport ==
    /\ proc = "import"
    /\ proc' = IF platform \in {"darwin", "win32"} THEN "imported" ELSE "exited"
    /\ UNCHANGED <<platform, req, child, fs, loop>>

\* start_api_server binds 127.0.0.1:49152 and serves.
start_api_server ==
    /\ proc = "imported"
    /\ proc' = "serving"
    /\ UNCHANGED <<platform, req, child, fs, loop>>

\* The slot a new request gets: the first idle one.
FreeSlot(r) == req[r].pc = "idle" /\ \A s \in Slots : s < r => req[s].pc # "idle"

Accepting(r) == proc = "serving" /\ loop = 0 /\ FreeSlot(r)

\* ------------------------------------------------------------ temp files

\* A variant of NamedTemporaryFile: one fixed path, opened with mode 'w'.
NamedTemporaryFile_fixed_path == {<<TmpSymbols[1]>>}

\* tempfile.NamedTemporaryFile(delete=False): a name no file has (O_EXCL).
NamedTemporaryFile == TempNames \ DOMAIN fs

WriteFile(path, text) == [p \in DOMAIN fs \cup {path} |-> IF p = path THEN text ELSE fs[p]]

\* os.unlink
Unlink(path) == [p \in DOMAIN fs \ {path} |-> fs[p]]

\* The PowerShell command both bridged flows run: the three interpolated values
\* are given as they are rendered.
PowershellFabric(path, pattern, model) ==
    <<"gc ">> \o path \o <<" | wsl -e ">> \o FABRIC_PATH \o <<" -sp ">> \o pattern
        \o <<" --model ">> \o model

\* ------------------------------------------------------------ POST /fabric

\* The f-string of fabric's win32 branch.
fabric_powershell_command(path, pattern, model) ==
    PowershellFabric(InQuotes(path), InQuotes(pattern), InQuotes(model))

\* fabric, up to its await.
fabric(r, patterns, models) ==
    /\ Accepting(r)
    /\ \E pattern \in patterns, model \in models, data \in Data :
        LET request == [IdleReq EXCEPT !.endpoint = "fabric", !.pattern = pattern,
                                       !.model = model, !.data = data] IN
        \/ /\ platform = "darwin"
           /\ req' = [req EXCEPT ![r] = [request EXCEPT !.pc = "await",
                  !.spawned = <<Spawn(<<FABRIC_PATH, <<"-sp">>, pattern, <<"--text">>, data,
                                        <<"--model">>, model>>, data)>>]]
           /\ child' = [child EXCEPT ![r] = Running]
           /\ fs' = fs
        \/ /\ platform = "win32"
           /\ data # <<>>
           /\ \E path \in NamedTemporaryFile :
                /\ fs' = WriteFile(path, data)
                /\ req' = [req EXCEPT ![r] = [request EXCEPT !.pc = "await",
                       !.temp_file_path = path,
                       !.spawned = <<Spawn(<<POWERSHELL, <<"-Command">>,
                            fabric_powershell_command(path, pattern, model)>>, fs'[path])>>]]
           /\ child' = [child EXCEPT ![r] = Running]
        \/ /\ platform = "win32"
           /\ data = <<>>
           \* temp_file_path is read before it is bound
           /\ req' = [req EXCEPT ![r] = [request EXCEPT !.pc = "done",
                  !.response = Unhandled("UnboundLocalError")]]
           /\ UNCHANGED <<child, fs>>
    /\ UNCHANGED <<platform, proc, loop>>

\* fabric, from its await on.
fabric_resume(r) ==
    /\ req[r].endpoint = "fabric" /\ req[r].pc = "await"
    /\ Resumable(r)
    /\ \E exit \in Exits :
        IF exit.returncode = 0
        THEN /\ fs' = IF platform = "win32" THEN Unlink(req[r].temp_file_path) ELSE fs
             /\ req' = [req EXCEPT ![r].pc = "done", ![r].returned = Append(@, exit),
                                   ![r].output = exit.stdout,
                                   ![r].response = Ok(exit.stdout)]
        ELSE /\ fs' = fs
             /\ req' = [req EXCEPT ![r].pc = "done", ![r].returned = Append(@, exit),
                                   ![r].response = ExecutionFailure(r, exit)]
    /\ child' = [child EXCEPT ![r] = NoChild]
    /\ UNCHANGED <<platform, proc, loop>>

\* -------------------------------------------------------- POST /set_model

\* The f-string of set_model's win32 branch, the model given as it is rendered.
PowershellSetModel(model) ==
    <<"wsl -e ">> \o FABRIC_PATH \o <<" --changeDefaultModel ">> \o model

set_model_powershell_command(model) == PowershellSetModel(InQuotes(model))

set_model(r, models) ==
    /\ Accepting(r)
    /\ \E model \in models :
        LET request == [IdleReq EXCEPT !.endpoint = "set_model", !.model = model]
            argv == IF platform = "darwin"
                    THEN <<FABRIC_PATH, <<"--changeDefaultModel">>, model>>
                    ELSE <<POWERSHELL, <<"-Command">>, set_model_powershell_command(model)>>
        IN req' = [req EXCEPT ![r] = [request EXCEPT !.pc = "await",
                                      !.spawned = <<Spawn(argv, <<>>)>>]]
    /\ child' = [child EXCEPT ![r] = Running]
    /\ UNCHANGED <<platform, proc, fs, loop>>

set_model_resume(r) ==
    /\ req[r].endpoint = "set_model" /\ req[r].pc = "await"
    /\ Resumable(r)
    /\ \E exit \in Exits :
        req' = [req EXCEPT ![r].pc = "done", ![r].returned = Append(@, exit),
                           ![r].output = exit.stdout,
                           ![r].response = IF exit.returncode = 0 THEN Ok(exit.stdout)
                               ELSE ExecutionFailure(r, exit)]
    /\ child' = [child EXCEPT ![r] = NoChild]
    /\ UNCHANGED <<platform, proc, fs, loop>>

\* ---------------------------------------------------------------- POST /yt

\* The f-string of yt's win32 branch: the model is interpolated bare.
yt_powershell_command(path, pattern, model) ==
    PowershellFabric(InQuotes(path), InQuotes(pattern), model)

\* yt, up to its first await: the transcript fetch.
yt(r, patterns, models) ==
    /\ Accepting(r)
    /\ \E pattern \in patterns, model \in models :
        LET request == [IdleReq EXCEPT !.endpoint = "yt", !.pattern = pattern,
                                       !.model = model, !.data = Url]
            argv == IF platform = "darwin" THEN <<YT_PATH, Url>>
                    ELSE <<<<"wsl">>, <<"-e">>, YT_PATH, Url>>
        IN req' = [req EXCEPT ![r] = [request EXCEPT !.pc = "await1",
                                      !.spawned = <<Spawn(argv, <<>>)>>]]
    /\ child' = [child EXCEPT ![r] = Running]
    /\ UNCHANGED <<platform, proc, fs, loop>>

\* yt, from its first await to its second await or to its end.
yt_stage1(r) ==
    /\ req[r].endpoint = "yt" /\ req[r].pc = "await1"
    /\ Resumable(r)
    /\ \E exit \in Exits :
       LET out == exit.stdout IN
       \/ /\ exit.returncode # 0
          /\ req' = [req EXCEPT ![r].pc = "done", ![r].returned = Append(@, exit),
                                ![r].response = ExecutionFailure(r, exit)]
          /\ child' = [child EXCEPT ![r] = NoChild]
          /\ fs' = fs
       \/ /\ exit.returncode = 0
          /\ platform = "darwin"
          /\ req' = [req EXCEPT ![r].pc = "await2", ![r].returned = Append(@, exit),
                                ![r].output = out,
                                ![r].spawned = @ \o <<Spawn(<<FABRIC_PATH, <<"-sp">>, req[r].pattern,
                     <<"--text">>, out, <<"--model">>, req[r].model>>, out)>>]
          /\ child' = [child EXCEPT ![r] = Running]
          /\ fs' = fs
       \/ /\ exit.returncode = 0
          /\ platform = "win32"
          /\ out # <<>>
          /\ \E path \in NamedTemporaryFile :
               /\ fs' = WriteFile(path, out)
               /\ req' = [req EXCEPT ![r].pc = "await2", ![r].returned = Append(@, exit),
                                     ![r].output = out,
                                     ![r].temp_file_path = path,
                                     ![r].spawned = @ \o <<Spawn(<<POWERSHELL, <<"-Command">>,
                          yt_powershell_command(path, req[r].pattern, req[r].model)>>,
                          fs'[path])>>]
          /\ child' = [child EXCEPT ![r] = Running]
       \/ /\ exit.returncode = 0
          /\ platform = "win32"
          /\ out = <<>>
          \* "if output:" is false: the transcript itself is returned
          /\ req' = [req EXCEPT ![r].pc = "done", ![r].returned = Append(@, exit),
                                ![r].output = out,
                                ![r].response = Ok(out)]
          /\ child' = [child EXCEPT ![r] = NoChild]
          /\ fs' = fs
    /\ UNCHANGED <<platform, proc, loop>>

\* yt, from its second await on.
yt_stage2(r) ==
    /\ req[r].endpoint = "yt" /\ req[r].pc = "await2"
    /\ Resumable(r)
    /\ \E exit \in Exits :
        IF exit.returncode = 0
        THEN /\ fs' = IF platform = "win32" THEN Unlink(req[r].temp_file_path) ELSE fs
             /\ req' = [req EXCEPT ![r].pc = "done", ![r].returned = Append(@, exit),
                                   ![r].output = exit.stdout,
                                   ![r].response = Ok(exit.stdout)]
        ELSE /\ fs' = fs
             /\ req' = [req EXCEPT ![r].pc = "done", ![r].returned = Append(@, exit),
                                   ![r].response = ExecutionFailure(r, exit)]
    /\ child' = [child EXCEPT ![r] = NoChild]
    /\ UNCHANGED <<platform, proc, loop>>

\* -------------------------------------------------- execute_fabric_command

\* execute_fabric_command(flag) is called without await: the handler, and with
\* it the event loop's only thread, stays in the call until the tool has ended.
execute_fabric_command(r, endpoint, flag) ==
    /\ req' = [req EXCEPT ![r] = [IdleReq EXCEPT !.endpoint = endpoint, !.pc = "blocked",
                  !.spawned = <<Spawn(<<FABRIC_PATH, flag>>, <<>>)>>]]
    /\ child' = [child EXCEPT ![r] = Running]
    /\ loop' = r

\* ------------------------------------------------------------- GET /models

SectionHeaders == {
    <<"G", "P", "T", " ", "M", "o", "d", "e", "l", "s", ":">>,
    <<"L", "o", "c", "a", "l", " ", "M", "o", "d", "e", "l", "s", ":">>,
    <<"C", "l", "a", "u", "d", "e", " ", "M", "o", "d", "e", "l", "s", ":">>,
    <<"G", "o", "o", "g", "l", "e", " ", "M", "o", "d", "e", "l", "s", ":">>}

Whitespace == {" ", "\t", "\n"}

RECURSIVE lstrip(_)
lstrip(s) == IF s # <<>> /\ Head(s) \in Whitespace THEN lstrip(Tail(s)) ELSE s

RECURSIVE rstrip(_)
rstrip(s) ==
    IF s # <<>> /\ s[Len(s)] \in Whitespace THEN rstrip(SubSeq(s, 1, Len(s) - 1)) ELSE s

\* str.strip()
strip(s) == rstrip(lstrip(s))

\* sub in s, for two str
Substring(sub, s) ==
    \E i \in 0..(Len(s) - Len(sub)) : SubSeq(s, i + 1, i + Len(sub)) = sub

\* 'name' in item: a substring test on a str, a key test on a dict.
name_in(item) ==
    IF item.type = "str" THEN Substring(<<"n", "a", "m", "e">>, item.str)
    ELSE item.key = "name"

\* item['name'] of a dict that has the key
name_of(item) == item.str

\* A variant of keeps: the comprehension without its strip() test.
keeps_blank_names(item) ==
    /\ name_in(item)
    /\ name_of(item) \notin SectionHeaders

\* The condition of the list comprehension; item['name'] is read only when
\* 'name' in item holds.
keeps(item) ==
    /\ name_in(item)
    /\ name_of(item) \notin SectionHeaders
    /\ strip(name_of(item)) # <<>>

RECURSIVE filtered_models(_)
filtered_models(items) ==
    IF items = <<>> THEN <<>>
    ELSE (IF keeps(Head(items)) THEN <<[name |-> name_of(Head(items))]>> ELSE <<>>)
         \o filtered_models(Tail(items))

\* item['name'] on a str raises TypeError.
raises_type_error(items) ==
    \E i \in 1..Len(items) : items[i].type = "str" /\ name_in(items[i])

\* get_models, from the tool's result on.
models_response(result) ==
    IF result.type = "list"
    THEN IF raises_type_error(result.items) THEN Unhandled("TypeError")
         ELSE [status |-> 200, models |-> filtered_models(result.items)]
    ELSE HTTPException500([kind |-> "UnexpectedResultFormat"])

\* get_models, up to the tool's call.
get_models(r) ==
    /\ Accepting(r)
    /\ IF platform \in {"darwin", "win32"}
       THEN execute_fabric_command(r, "models", <<"--listmodels">>)
       ELSE /\ req' = [req EXCEPT ![r] = [IdleReq EXCEPT !.endpoint = "models",
                   !.pc = "done",
                   !.response = HTTPException500([kind |-> "UnsupportedPlatform"])]]
            /\ UNCHANGED <<child, loop>>
    /\ UNCHANGED <<platform, proc, fs>>

\* get_models, from the tool's return on; results is what the tool may return.
get_models_return(r, results) ==
    /\ req[r].endpoint = "models" /\ req[r].pc = "blocked"
    /\ \E result \in results :
        req' = [req EXCEPT ![r].pc = "done", ![r].result = result,
                           ![r].response = models_response(result)]
    /\ child' = [child EXCEPT ![r] = NoChild]
    /\ loop' = 0
    /\ UNCHANGED <<platform, proc, fs>>

\* ----------------------------------------------------------- GET /patterns

\* A variant of patterns_response: no isinstance test.
patterns_response_any_shape(result) == [status |-> 200, patterns |-> result.items]

\* get_patterns, from the tool's result on.
patterns_response(result) ==
    IF result.type = "list" THEN [status |-> 200, patterns |-> result.items]
    ELSE HTTPException500([kind |-> "str", of |-> result])

\* get_patterns, up to the tool's call.
get_patterns(r) ==
    /\ Accepting(r)
    /\ IF platform \in {"darwin", "win32"}
       THEN execute_fabric_command(r, "patterns", <<"--list">>)
       ELSE \* result is read before it is bound
            /\ req' = [req EXCEPT ![r] = [IdleReq EXCEPT !.endpoint = "patterns",
                   !.pc = "done", !.response = Unhandled("UnboundLocalError")]]
            /\ UNCHANGED <<child, loop>>
    /\ UNCHANGED <<platform, proc, fs>>

get_patterns_return(r, results) ==
    /\ req[r].endpoint = "patterns" /\ req[r].pc = "blocked"
    /\ \E result \in results :
        req' = [req EXCEPT ![r].pc = "done", ![r].result = result,
                           ![r].response = patterns_response(result)]
    /\ child' = [child EXCEPT ![r] = NoChild]
    /\ loop' = 0
    /\ UNCHANGED <<platform, proc, fs>>

\* ----------------------------------------------------------- the responses

\* The response is sent and the request's locals are gone.
Respond(r) ==
    /\ req[r].pc = "done"
    /\ loop = 0
    /\ req' = [req EXCEPT ![r] = IdleReq]
    /\ UNCHANGED <<platform, proc, child, fs, loop>>

\* ------------------------------------------------------- what the tool returns

gpt4 == <<"g", "p", "t", "-", "4">>
claude3 == <<"c", "l", "a", "u", "d", "e", "-", "3">>
GPTModels == <<"G", "P", "T", " ", "M", "o", "d", "e", "l", "s", ":">>
ClaudeModels == <<"C", "l", "a", "u", "d", "e", " ", "M", "o", "d", "e", "l", "s", ":">>

\* The entries of a --listmodels result: section headers as strings, a string
\* that is no section header, model-name records (one named like a header, a
\* blank one, one of white space), and a record without a name.
ModelEntries == {
    PyStr(GPTModels), PyStr(ClaudeModels), PyStr(<<"n", "a", "m", "e", "s">>),
    PyDict("name", gpt4), PyDict("name", claude3), PyDict("name", <<>>),
    PyDict("name", <<" ">>), PyDict("name", GPTModels), PyDict("id", gpt4)}

RECURSIVE SeqsUpTo(_, _)
SeqsUpTo(S, n) ==
    IF n = 0 THEN {<<>>}
    ELSE LET shorter == SeqsUpTo(S, n - 1) IN
         shorter \cup {Append(s, x) : s \in shorter, x \in S}

NotAList == {PyStr(<<"e", "r", "r">>), PyNone}

\* Every result of --listmodels up to MaxLen entries.
AllModelResults == {PyList(l) : l \in SeqsUpTo(ModelEntries, MaxLen)} \cup NotAList

\* The results of --listmodels in the specification of all five endpoints.
SomeModelResults == {
    PyList(<<PyStr(GPTModels), PyDict("name", gpt4), PyDict("name", <<>>)>>),
    PyNone}

\* Every result of --list up to MaxLen entries.
AllPatternResults ==
    {PyList(l) : l \in SeqsUpTo({PyStr(<<"p">>), PyStr(<<"q">>)}, MaxLen)} \cup NotAList

\* The results of --list in the specification of all five endpoints.
SomePatternResults == {PyList(<<PyStr(<<"q">>), PyStr(<<"p">>)>>), PyNone}

\* ------------------------------------------------------- the specifications

Init ==
    /\ platform \in Platforms
    /\ proc = "import"
    /\ req = [r \in Slots |-> IdleReq]
    /\ child = [r \in Slots |-> NoChild]
    /\ fs = <<>>
    /\ loop = 0

Next ==
    \/ ModuleImport
    \/ start_api_server
    \/ \E r \in Slots :
        \/ fabric(r, PlainPatterns, PlainModels) \/ fabric_resume(r)
        \/ set_model(r, PlainModels) \/ set_model_resume(r)
        \/ yt(r, PlainPatterns, PlainModels) \/ yt_stage1(r) \/ yt_stage2(r)
        \/ get_models(r) \/ get_models_return(r, SomeModelResults)
        \/ get_patterns(r) \/ get_patterns_return(r, SomePatternResults)
        \/ Respond(r)

\* All five endpoints, MaxReq requests in flight, plain request values.
Spec == Init /\ [][Next]_vars

NextValues ==
    \/ ModuleImport
    \/ start_api_server
    \/ fabric(1, Patterns, Models) \/ fabric_resume(1)
    \/ set_model(1, Models) \/ set_model_resume(1)
    \/ yt(1, Patterns, Models) \/ yt_stage1(1) \/ yt_stage2(1)
    \/ Respond(1)

\* The three endpoints that take request values, one request at a time, over
\* plain values and values with a quote or a space.
SpecValues == Init /\ [][NextValues]_vars

NextListings ==
    \/ ModuleImport
    \/ start_api_server
    \/ get_models(1) \/ get_models_return(1, AllModelResults)
    \/ get_patterns(1) \/ get_patterns_return(1, AllPatternResults)
    \/ Respond(1)

\* The two listing endpoints, one request at a time, over every result of the
\* tool up to MaxLen entries.
SpecListings == Init /\ [][NextListings]_vars


\* ------------------------------------------------------------ the properties

Supported == {"darwin", "win32"}

Finishes(r) == req[r].pc # "done" /\ req'[r].pc = "done"

\* C1: on win32, a temp file a /fabric or /yt request created is no longer on
\* disk when the request's handler finishes, whether the bridging subprocess
\* exited 0 or not.
C1_TempFileRemovedAtEnd ==
    [][\A r \in Slots :
        Finishes(r) /\ req'[r].temp_file_path # Unbound
            => req'[r].temp_file_path \notin DOMAIN fs']_vars

Stage1Failed(r) ==
    /\ req[r].endpoint = "yt"
    /\ Len(req[r].returned) >= 1
    /\ req[r].returned[1].returncode # 0

\* C2: in /yt, on both platforms, when the transcript fetch exits non-zero the
\* pattern-apply subprocess is never spawned, no temp file is created, and the
\* caller gets HTTP 500 whose detail is the transcript fetch's failure.
C2_Stage1FailureEndsYt ==
    \A r \in Slots :
        Stage1Failed(r) =>
            /\ req[r].pc = "done"
            /\ Len(req[r].spawned) = 1
            /\ child[r] = NoChild
            /\ req[r].temp_file_path = Unbound
            /\ req[r].response =
                   HTTPException500(StrCalledProcessError(
                       IF platform = "darwin" THEN <<YT_PATH, Url>>
                       ELSE <<<<"wsl">>, <<"-e">>, YT_PATH, Url>>,
                       req[r].returned[1].returncode))

C2_Witness ==
    \E r \in Slots : Stage1Failed(r) /\ platform = "win32" /\ req[r].response.status = 500

\* The renderings of a request value that leave no metacharacter of it
\* unescaped: what the quoting function gives, and for a value with no
\* metacharacter also the value between single quotes.
SafelyRendered(value) ==
    {sanitize_for_shell(value)} \cup (IF HasMeta(value) THEN {} ELSE {InQuotes(value)})

SafeCommands(r) ==
    IF req[r].endpoint = "set_model"
    THEN {PowershellSetModel(m) : m \in SafelyRendered(req[r].model)}
    ELSE {PowershellFabric(f, p, m) : f \in SafelyRendered(req[r].temp_file_path),
                                      p \in SafelyRendered(req[r].pattern),
                                      m \in SafelyRendered(req[r].model)}

\* C3: on win32, every request value interpolated into a PowerShell command
\* string went through the quoting function, so no value with a shell
\* metacharacter (a single quote, a space) is in the command string unescaped.
C3_InterpolatedValuesQuoted ==
    \A r \in Slots : \A i \in 1..Len(req[r].spawned) :
        req[r].spawned[i].argv[1] = POWERSHELL
            => req[r].spawned[i].argv[3] \in SafeCommands(r)

IsHeaderString(item) == item.type = "str" /\ item.str \in SectionHeaders

IsModelRecord(item) == item.type = "dict"

NonBlank(name) == \E i \in 1..Len(name) : name[i] \notin Whitespace

\* The places of the tool's list whose record names a model.
Named(items) ==
    {i \in 1..Len(items) :
        /\ IsModelRecord(items[i])
        /\ items[i].key = "name"
        /\ NonBlank(items[i].str)
        /\ items[i].str \notin SectionHeaders}

\* The k-th place of Named(items), in the list's order.
NthNamed(items, k) ==
    CHOOSE i \in Named(items) : Cardinality({j \in Named(items) : j <= i}) = k

\* C4: when the tool's list holds only section-header strings and model-name
\* records, GET /models succeeds and its models are exactly the records with a
\* non-blank name that is no section header, each as {name}, in the list's order.
C4_ModelsAreTheNamedRecordsInOrder ==
    \A r \in Slots :
        /\ req[r].endpoint = "models"
        /\ req[r].pc = "done"
        /\ req[r].result.type = "list"
        /\ \A i \in 1..Len(req[r].result.items) :
              IsHeaderString(req[r].result.items[i]) \/ IsModelRecord(req[r].result.items[i])
        => LET items == req[r].result.items
               models == req[r].response.models
           IN /\ req[r].response.status = 200
              /\ Len(models) = Cardinality(Named(items))
              /\ \A k \in 1..Len(models) :
                    models[k] = [name |-> items[NthNamed(items, k)].str]

C4_Witness ==
    /\ req[1].endpoint = "models"
    /\ req[1].pc = "done"
    /\ req[1].result = PyList(<<PyStr(GPTModels), PyDict("name", gpt4), PyDict("name", <<>>),
                                PyDict("name", claude3)>>)
    /\ req[1].response.status = 200
    /\ req[1].response.models = <<[name |-> gpt4], [name |-> claude3]>>

\* C5: on a platform other than darwin and win32 the process ends during the
\* platform dispatch: the listener is never bound and no handler ever runs.
C5_UnsupportedPlatformNeverServes ==
    platform \notin Supported =>
        /\ proc \in {"import", "exited"}
        /\ \A r \in Slots : req[r] = IdleReq /\ child[r] = NoChild

C5_Witness == platform \notin Supported /\ proc = "exited"

\* The request's temp file is on disk and its subprocess is reading it.
TempFileLive(r) ==
    /\ req[r].pc \in {"await", "await2"}
    /\ req[r].temp_file_path # Unbound

\* C6: two requests in flight whose temp files are live at the same time hold
\* distinct temp file paths.
C6_LiveTempPathsDistinct ==
    \A r, s \in Slots :
        r # s /\ TempFileLive(r) /\ TempFileLive(s)
            => req[r].temp_file_path # req[s].temp_file_path

C6_Witness ==
    \E r, s \in Slots :
        /\ r # s /\ TempFileLive(r) /\ TempFileLive(s)
        /\ req[r].endpoint = "fabric" /\ req[s].endpoint = "yt"

\* The event loop can take the next step of slot s: accept a request there,
\* resume its handler, or send its response.
CanRun(s) ==
    \/ FreeSlot(s) /\ ENABLED get_patterns(s)
    \/ req[s].pc \in {"await", "await1", "await2"} /\ loop = 0
    \/ req[s].pc = "done" /\ ENABLED Respond(s)
    \/ req[s].pc = "idle" /\ ~FreeSlot(s)

\* C7: while a request of any endpoint waits for its subprocess, only that
\* request is suspended: every other slot can be served.
C7_OnlyTheWaitingRequestIsSuspended ==
    \A r \in Slots :
        child[r] = Running => \A s \in Slots \ {r} : CanRun(s)

\* C8: GET /patterns answers a list-shaped result with exactly that list, and
\* anything else with HTTP 500, never with a success.
C8_PatternsPassThroughOrFormatError ==
    \A r \in Slots :
        req[r].endpoint = "patterns" /\ req[r].pc = "done" =>
            IF req[r].result.type = "list"
            THEN req[r].response = [status |-> 200, patterns |-> req[r].result.items]
            ELSE req[r].response.status = 500

C8_Witness ==
    /\ req[1].endpoint = "patterns"
    /\ req[1].pc = "done"
    /\ req[1].result = PyList(<<PyStr(<<"q">>), PyStr(<<"p">>), PyStr(<<"q">>)>>)
    /\ req[1].response.status = 200

Stage1Succeeded(r) ==
    /\ req[r].endpoint = "yt"
    /\ Len(req[r].returned) >= 1
    /\ req[r].returned[1].returncode = 0

\* C9: in /yt, on both platforms, once the transcript fetch has exited 0 the
\* pattern-apply subprocess is spawned exactly once, with the fetch's whole
\* standard output (the empty string too) as its text input, and a success
\* response carries the pattern-apply subprocess's output.
C9_Stage2RunsOnStage1Output ==
    \A r \in Slots :
        Stage1Succeeded(r) =>
            /\ Len(req[r].spawned) = 2
            /\ req[r].spawned[2].text = req[r].returned[1].stdout
            /\ req[r].pc = "done" /\ req[r].response.status = 200
                  => /\ Len(req[r].returned) = 2
                     /\ req[r].response.output = req[r].returned[2].stdout

\* C10: on win32 a /fabric request with empty data creates no temp file and
\* still ends in a success response or in the HTTP 500 of a subprocess failure.
C10_EmptyDataStillRunsFabric ==
    \A r \in Slots :
        /\ platform = "win32"
        /\ req[r].endpoint = "fabric"
        /\ req[r].data = <<>>
        /\ req[r].pc = "done"
        => /\ req[r].temp_file_path = Unbound
           /\ \/ req[r].response.status = 200
              \/ req[r].response.detail.kind = "CalledProcessError"

====
